---------------------------- MODULE Spec2Model ----------------------------
(***************************************************************************)
(* Model of the runtime-group Terraform provider:                          *)
(*   internal/client/client.go      the authenticated REST client          *)
(*   internal/provider/runtime_group_resource.go   the resource adapter    *)
(*                                                                         *)
(* The HTTP transport (net/http.Client.Do), the JWT decoder                *)
(* (golang-jwt ParseUnverified), net/url and the Terraform plugin          *)
(* framework are libraries.  Their results are modelled from their         *)
(* documented behaviour at the point where the source calls them.  A       *)
(* "request sent" is one invocation of http.Client.Do (client.go:114):     *)
(* what the transport does below that call is the environment.             *)
(***************************************************************************)
EXTENDS Naturals, Sequences, FiniteSets, TLC

(***************************************************************************)
(* Bounds.                                                                 *)
(***************************************************************************)
\* The number of CreateRuntimeGroup invocations explored in one behaviour.
MaxCalls == 3

\* The goroutines that call into the provider and the client concurrently.
Procs == {"g1", "g2"}

(***************************************************************************)
(* Go values.  A nil pointer / nil error is a record of its own, so that   *)
(* it compares with every struct value.                                    *)
(***************************************************************************)
Nil == [nil |-> TRUE]

\* client.go:15
runtimeGroupEndpoint == "/create-runtime-group"

\* client.go:19
createRuntimeGroupMethod == "POST"

\* net/http status codes named at client.go:128
StatusOK == 200
StatusCreated == 201

\* Base addresses handed to New: absolute URIs, a relative reference
\* (url.Parse accepts it), and two strings url.Parse rejects (a raw control
\* character, a bad percent escape).
AbsoluteURLs == {"https://api.konghq.test", "http://localhost:8080/v2"}
RelativeURLs == {"api.konghq.test"}
MalformedURLs == {"https://api<DEL>.test", "https://api.test/%zz"}
URLs == AbsoluteURLs \cup RelativeURLs \cup MalformedURLs

\* url.Parse(rawURL): the parse error, or nil (client.go:33, and inside
\* url.JoinPath and http.NewRequest).
urlParse(rawURL) ==
    IF rawURL \in MalformedURLs THEN [msg |-> "parse url", url |-> rawURL]
    ELSE Nil

\* A bearer token is the sequence of its dot-separated segments, which is
\* what strings.Split(tokenString, ".") yields inside the decoder.  Segment
\* kinds: "hdr" a base64 JSON header naming a known alg, "hdr-noalg" a JSON
\* header without alg, "claims" a base64 JSON claim set, "sig" a signature,
\* "junk" a segment that is not base64 JSON.
Tokens ==
    { <<"hdr", "claims", "sig">>,
      <<"hdr-noalg", "claims", "sig">>,
      <<"hdr", "junk", "sig">>,
      <<"junk", "claims", "sig">>,
      <<"hdr", "claims", "sig", "extra">>,
      <<"hdr", "claims">>,
      << >> }

\* new(jwt.Parser).ParseUnverified(tokenString, jwt.MapClaims{})
\* (client.go:137).  The decoder splits the token, decodes header and
\* claims and looks the signing method up.  It verifies nothing, so the
\* token it returns always has Valid = false: Valid is set only by the
\* verifying Parse.
ParseUnverified(tokenString) ==
    IF Len(tokenString) # 3
    THEN [token |-> Nil, err |-> [msg |-> "token contains an invalid number of segments"]]
    ELSE IF tokenString[1] \notin {"hdr", "hdr-noalg"}
    THEN [token |-> [Raw |-> tokenString, Valid |-> FALSE],
          err |-> [msg |-> "malformed header"]]
    ELSE IF tokenString[2] # "claims"
    THEN [token |-> [Raw |-> tokenString, Valid |-> FALSE],
          err |-> [msg |-> "malformed claims"]]
    ELSE IF tokenString[1] # "hdr"
    THEN [token |-> [Raw |-> tokenString, Valid |-> FALSE],
          err |-> [msg |-> "signing method (alg) is unspecified"]]
    ELSE [token |-> [Raw |-> tokenString, Valid |-> FALSE], err |-> Nil]

\* client.go:136-148
validateBearerToken(tokenString) ==
    LET parsed == ParseUnverified(tokenString) IN
    IF parsed.err # Nil THEN parsed.err
    ELSE IF ~parsed.token.Valid THEN [msg |-> "invalid token"]
    ELSE Nil

\* client.go:123-125
wrap(msg, err) == [msg |-> msg, cause |-> err]

\* New that hands the half-built client back together with the error.
NewResult_Partial(baseULR, token) ==
    IF urlParse(baseULR) # Nil
    THEN [client |-> [BaseUrl |-> "", token |-> << >>],
          err |-> wrap("error parsing base URL", urlParse(baseULR))]
    ELSE IF validateBearerToken(token) # Nil
    THEN [client |-> [BaseUrl |-> baseULR, token |-> << >>],
          err |-> wrap("error validating bearer token", validateBearerToken(token))]
    ELSE [client |-> [BaseUrl |-> baseULR, token |-> token], err |-> Nil]

\* client.go:29-47: what New returns.
NewResult(baseULR, token) ==
    IF urlParse(baseULR) # Nil
    THEN [client |-> Nil, err |-> wrap("error parsing base URL", urlParse(baseULR))]
    ELSE IF validateBearerToken(token) # Nil
    THEN [client |-> Nil,
          err |-> wrap("error validating bearer token", validateBearerToken(token))]
    ELSE [client |-> [BaseUrl |-> baseULR, token |-> token], err |-> Nil]


(***************************************************************************)
(* Terraform framework values (types.String, types.Map) and the resource   *)
(* data model.                                                             *)
(***************************************************************************)
StringValue(v) == [null |-> FALSE, unknown |-> FALSE, value |-> v]
StringNull == [null |-> TRUE, unknown |-> FALSE, value |-> ""]
StringUnknown == [null |-> FALSE, unknown |-> TRUE, value |-> ""]

\* types.String.ValueString(): "" for null and unknown
\* (runtime_group_resource.go:122-124).
ValueString(s) == IF s.null \/ s.unknown THEN "" ELSE s.value

\* attr.Value.String() of a types.String: the human-readable form, which
\* quotes a known value (runtime_group_resource.go:118).
String(s) ==
    IF s.unknown THEN "<unknown>"
    ELSE IF s.null THEN "<null>"
    ELSE "\"" \o s.value \o "\""

\* types.Map: a set of <<key, types.String>> pairs; Elements() of a null
\* map is empty (runtime_group_resource.go:117).
MapNull == [null |-> TRUE, elems |-> {}]
MapValue(elems) == [null |-> FALSE, elems |-> elems]
Elements(m) == m.elems

\* runtime_group_resource.go:34-42: the plans Terraform hands to Create
\* and Update.  Computed attributes are unknown in a plan.
Plans ==
    { [Id |-> StringUnknown, Name |-> StringValue("alpha"),
       Description |-> StringValue("first group"), ClusterType |-> StringNull,
       Labels |-> MapNull,
       ControlPlaneEndpoint |-> StringUnknown, TelemetryEndpoint |-> StringUnknown],
      [Id |-> StringUnknown, Name |-> StringValue("beta"),
       Description |-> StringNull, ClusterType |-> StringValue("CLUSTER_TYPE_HYBRID"),
       Labels |-> MapValue({<<"team", StringValue("core")>>}),
       ControlPlaneEndpoint |-> StringUnknown, TelemetryEndpoint |-> StringUnknown] }

\* The state of a resource that does not exist (yet).
NoState == Nil

\* The import identifiers ImportState is called with.
ImportIDs == {"alpha", "gamma", ""}

(***************************************************************************)
(* The client's request and response types and their JSON forms.           *)
(***************************************************************************)
\* runtime_group_resource.go:116-126: the request Create builds from the
\* plan.
PlanRequest(data) ==
    [Name |-> ValueString(data.Name),
     Description |-> ValueString(data.Description),
     ClusterType |-> ValueString(data.ClusterType),
     Labels |-> { <<kv[1], String(kv[2])>> : kv \in Elements(data.Labels) }]

\* The request bodies callers pass to CreateRuntimeGroup (client.go:50-55).
Requests == { PlanRequest(data) : data \in Plans }

\* json.Marshal(requestBody) (client.go:73): a struct of strings and a
\* map[string]string always encodes; the object carries the json tags of
\* client.go:51-54.
jsonMarshal(requestBody) ==
    [bytes |-> [name |-> requestBody.Name,
                description |-> requestBody.Description,
                cluster_type |-> requestBody.ClusterType,
                labels |-> requestBody.Labels],
     err |-> Nil]

\* url.JoinPath(base, elem) (client.go:78): parses base and appends elem.
JoinPath(base, elem) ==
    IF urlParse(base) # Nil THEN [result |-> "", err |-> urlParse(base)]
    ELSE [result |-> base \o elem, err |-> Nil]

\* http.NewRequest(method, url, body) (client.go:83): fails for an invalid
\* method or a url that does not parse.
NewRequest(method, url, body) ==
    IF method \notin {"GET", "POST", "PUT", "DELETE"}
    THEN [req |-> Nil, err |-> [msg |-> "net/http: invalid method"]]
    ELSE IF \E m \in MalformedURLs : url = m \o runtimeGroupEndpoint
    THEN [req |-> Nil, err |-> [msg |-> "parse url", url |-> url]]
    ELSE [req |-> [Method |-> method, URL |-> url, Body |-> body, Header |-> {}],
          err |-> Nil]

\* The JSON documents the remote service answers with, and a body that is
\* not JSON.
NotJSON == [raw |-> "<html>Bad Gateway</html>"]
JSONBodies ==
    { [id |-> "rg-0001", name |-> "alpha", description |-> "first group",
       labels |-> {},
       config |-> [control_plane_endpoint |-> "https://cp1.konghq.test",
                   telemetry_endpoint |-> "https://tp1.konghq.test"],
       created_at |-> "2023-01-01T00:00:00Z", updated_at |-> "2023-01-01T00:00:00Z"],
      [id |-> "rg-0002", name |-> "beta", description |-> "",
       labels |-> {<<"team", "core">>},
       config |-> [control_plane_endpoint |-> "https://cp2.konghq.test",
                   telemetry_endpoint |-> "https://tp2.konghq.test"],
       created_at |-> "2023-01-02T00:00:00Z", updated_at |-> "2023-01-03T00:00:00Z"] }
Bodies == JSONBodies \cup {NotJSON}

\* json.NewDecoder(resp.Body).Decode(&createResponse) (client.go:99-100):
\* maps the JSON keys to the fields of CreateRuntimeGroupResponse
\* (client.go:58-69).
jsonDecode(body) ==
    IF body \notin JSONBodies
    THEN [value |-> Nil, err |-> [msg |-> "invalid character '<' looking for beginning of value"]]
    ELSE [value |-> [ID |-> body.id, Name |-> body.name,
                     Description |-> body.description, Labels |-> body.labels,
                     Config |-> [ControlPlaneEndpoint |-> body.config.control_plane_endpoint,
                                 TelemetryEndpoint |-> body.config.telemetry_endpoint],
                     CreatedAt |-> body.created_at, UpdatedAt |-> body.updated_at],
          err |-> Nil]

\* The status codes the remote service answers with.
Statuses == {StatusOK, StatusCreated, 202, 204, 404, 500}

\* What http.Client.Do returns (client.go:114): a transport error, or a
\* response with a status code and a body.
TransportOutcomes ==
    {[err |-> [msg |-> "dial tcp: connection refused"], StatusCode |-> 0, Body |-> NotJSON]}
    \cup { [err |-> Nil, StatusCode |-> s, Body |-> b] : s \in Statuses, b \in Bodies }

\* A status check that accepts every 2xx code.
codeToErr_Any2xx(code) ==
    IF code < 200 \/ code > 299
    THEN [msg |-> "HTTP request failed with status code", code |-> code]
    ELSE Nil

\* client.go:127-133
codeToErr(code) ==
    IF code # StatusCreated /\ code # StatusOK
    THEN [msg |-> "HTTP request failed with status code", code |-> code]
    ELSE Nil

\* client.go:108-111: do() sets the two headers before handing the request
\* to the transport.
doHeaders(c, req) ==
    [req EXCEPT !.Header = { <<"Content-Type", "application/json">>,
                             <<"Authorization", <<"Bearer", c.token>> >> }]

\* The part of CreateRuntimeGroup before the transport that needs no
\* receiver field (client.go:73-76).
Serialize(requestBody) ==
    LET m == jsonMarshal(requestBody) IN
    IF m.err # Nil THEN [bytes |-> m.bytes, err |-> wrap(" serializing request body", m.err)]
    ELSE [bytes |-> m.bytes, err |-> Nil]

\* client.go:78-86: the endpoint and the request for receiver c.
BuildRequest(c, bytes) ==
    LET j == JoinPath(c.BaseUrl, runtimeGroupEndpoint) IN
    IF j.err # Nil
    THEN [req |-> Nil, err |-> wrap(" joining base URL and endpoint", j.err)]
    ELSE LET r == NewRequest(createRuntimeGroupMethod, j.result, bytes) IN
         IF r.err # Nil THEN [req |-> Nil, err |-> wrap("creating HTTP request", r.err)]
         ELSE [req |-> r.req, err |-> Nil]

\* A completion that keeps the half-decoded response next to the error.
Finish_Partial(outcome) ==
    IF outcome.err # Nil
    THEN [resp |-> Nil, decoded |-> FALSE,
          err |-> wrap("making HTTP request", wrap("making HTTP request", outcome.err))]
    ELSE IF codeToErr(outcome.StatusCode) # Nil
    THEN [resp |-> Nil, decoded |-> FALSE,
          err |-> wrap("checking status code", codeToErr(outcome.StatusCode))]
    ELSE LET d == jsonDecode(outcome.Body) IN
         IF d.err # Nil
         THEN [resp |-> [ID |-> "", Name |-> ""], decoded |-> TRUE,
               err |-> wrap("decoding response JSON", d.err)]
         ELSE [resp |-> d.value, decoded |-> TRUE, err |-> Nil]

\* client.go:88-104 (with do's own wrap, client.go:115-117): what
\* CreateRuntimeGroup returns once the transport has answered, and whether
\* it ran the decoder on the body.
Finish(outcome) ==
    IF outcome.err # Nil
    THEN [resp |-> Nil, decoded |-> FALSE,
          err |-> wrap("making HTTP request", wrap("making HTTP request", outcome.err))]
    ELSE IF codeToErr(outcome.StatusCode) # Nil
    THEN [resp |-> Nil, decoded |-> FALSE,
          err |-> wrap("checking status code", codeToErr(outcome.StatusCode))]
    ELSE LET d == jsonDecode(outcome.Body) IN
         IF d.err # Nil
         THEN [resp |-> Nil, decoded |-> TRUE,
               err |-> wrap("decoding response JSON", d.err)]
         ELSE [resp |-> d.value, decoded |-> TRUE, err |-> Nil]

\* A Create that takes the server-issued id as the state identifier.
CreatedState_ServerId(data, createResp) ==
    [data EXCEPT !.ControlPlaneEndpoint = StringValue(createResp.Config.ControlPlaneEndpoint),
                 !.TelemetryEndpoint = StringValue(createResp.Config.TelemetryEndpoint),
                 !.Id = StringValue(createResp.ID)]

\* runtime_group_resource.go:134-136: the model Create saves.
CreatedState(data, createResp) ==
    [data EXCEPT !.ControlPlaneEndpoint = StringValue(createResp.Config.ControlPlaneEndpoint),
                 !.TelemetryEndpoint = StringValue(createResp.Config.TelemetryEndpoint),
                 !.Id = data.Name]


(***************************************************************************)
(* State.                                                                  *)
(***************************************************************************)
VARIABLES
    c,          \* the shared Client value (client.go:23-26)
    newArgs,    \* the arguments of the last call of New, or Nil
    newRet,     \* what that call returned: [client, err], or Nil
    rClient,    \* RuntimeGroup.client (runtime_group_resource.go:30)
    tfState,    \* the resource state the provider handed to Terraform
    diags,      \* the diagnostics of the last provider operation
    wrote,      \* what the last provider operation passed to State.Set
    lastOp,     \* the operation that took the last step
    pc,         \* per goroutine: "idle", "await" (inside client.Do)
    cur,        \* per goroutine: the CreateRuntimeGroup call it is in
    lastRet,    \* what the last CreateRuntimeGroup call to return returned
    ncalls,     \* CreateRuntimeGroup invocations so far
    nearly,     \* invocations that ended before client.Do
    nsent,      \* requests handed to the transport so far
    wire,       \* the distinct requests handed to the transport
    panicked    \* a nil pointer dereference has crashed the process

vars == <<c, newArgs, newRet, rClient, tfState, diags, wrote, lastOp, pc, cur,
          lastRet, ncalls, nearly, nsent, wire, panicked>>

clientVars == <<pc, cur, lastRet, ncalls, nearly, nsent, wire, panicked, c>>
providerVars == <<rClient, tfState, diags, wrote>>
newVars == <<newArgs, newRet>>

\* A pointer to the shared Client, as stored in RuntimeGroup.client and as
\* passed in ConfigureRequest.ProviderData.
ClientPtr == [ptr |-> "c"]

\* Provider data of another type than *client.Client.
WrongType == [type |-> "*http.Client"]

ProviderData == {Nil, WrongType, ClientPtr}

\* The Client values callers share: built with a decodable token, the zero
\* token, a relative base address, and a base address url.Parse rejects
\* (BaseUrl is an exported field, client.go:24).
Clients ==
    { [BaseUrl |-> "https://api.konghq.test", token |-> <<"hdr", "claims", "sig">>],
      [BaseUrl |-> "api.konghq.test", token |-> << >>],
      [BaseUrl |-> "https://api.test/%zz", token |-> <<"hdr", "claims", "sig">>] }

NoWrite == [set |-> FALSE]
NoCall == [via |-> "none"]

Init ==
    /\ c \in Clients
    /\ newArgs = Nil
    /\ newRet = Nil
    /\ rClient = Nil
    /\ tfState = NoState
    /\ diags = {}
    /\ wrote = NoWrite
    /\ lastOp = "init"
    /\ pc = [p \in Procs |-> "idle"]
    /\ cur = [p \in Procs |-> NoCall]
    /\ lastRet = Nil
    /\ ncalls = 0
    /\ nearly = 0
    /\ nsent = 0
    /\ wire = {}
    /\ panicked = FALSE

(***************************************************************************)
(* internal/client/client.go                                               *)
(***************************************************************************)
\* client.go:29-47
New(baseULR, token) ==
    /\ newArgs' = [baseULR |-> baseULR, token |-> token]
    /\ newRet' = NewResult(baseULR, token)
    /\ lastOp' = "New"
    /\ UNCHANGED <<clientVars, providerVars>>

\* A do that hands the request to the transport a second time.
do_Twice(p, req) ==
    /\ wire' = wire \cup {doHeaders(c, req)}
    /\ nsent' = nsent + 2
    /\ pc' = [pc EXCEPT ![p] = "await"]
    /\ UNCHANGED c

\* A do that keeps the composed endpoint in the client for the next call.
do_KeepsEndpoint(p, req) ==
    /\ wire' = wire \cup {doHeaders(c, req)}
    /\ nsent' = nsent + 1
    /\ pc' = [pc EXCEPT ![p] = "await"]
    /\ c' = [c EXCEPT !.BaseUrl = req.URL]

\* client.go:108-114: do() sets the headers and calls http.Client.Do once;
\* the goroutine then blocks inside the transport.
do(p, req) ==
    /\ wire' = wire \cup {doHeaders(c, req)}
    /\ nsent' = nsent + 1
    /\ pc' = [pc EXCEPT ![p] = "await"]
    /\ UNCHANGED c

\* runtime_group_resource.go:129-139: what Create does with the result of
\* CreateRuntimeGroup.  A direct caller of the client does nothing more.
AfterCall(via, data, res) ==
    IF via # "provider" THEN UNCHANGED <<tfState, diags, wrote>>
    ELSE IF res.err # Nil
    THEN /\ diags' = {"Client Error"}
         /\ wrote' = NoWrite
         /\ UNCHANGED tfState
    ELSE /\ diags' = {}
         /\ tfState' = CreatedState(data, res.resp)
         /\ wrote' = [set |-> TRUE, value |-> CreatedState(data, res.resp)]

\* CreateRuntimeGroup returns before the transport was called
\* (client.go:75, 80, 85).
EarlyReturn(p, via, data, err) ==
    /\ lastRet' = [resp |-> Nil, err |-> err, decoded |-> FALSE]
    /\ nearly' = nearly + 1
    /\ AfterCall(via, data, [resp |-> Nil, err |-> err])
    /\ UNCHANGED <<pc, cur, nsent, wire, panicked, c>>

\* client.go:72-88: CreateRuntimeGroup on receiver recv, up to the call of
\* the transport.  The receiver is first dereferenced at client.go:78; a
\* nil receiver panics there.
Enter(p, recv, requestBody, via, data) ==
    /\ ncalls' = ncalls + 1
    /\ LET s == Serialize(requestBody) IN
       IF s.err # Nil THEN EarlyReturn(p, via, data, s.err)
       ELSE IF recv = Nil
       THEN /\ panicked' = TRUE
            /\ nearly' = nearly + 1
            /\ UNCHANGED <<pc, cur, lastRet, nsent, wire, c, tfState, diags, wrote>>
       ELSE LET b == BuildRequest(c, s.bytes) IN
            IF b.err # Nil THEN EarlyReturn(p, via, data, b.err)
            ELSE /\ do(p, b.req)
                 /\ cur' = [cur EXCEPT ![p] = [via |-> via, data |-> data]]
                 /\ UNCHANGED <<lastRet, nearly, panicked, tfState, diags, wrote>>

\* client.go:72: a caller that holds the shared client calls
\* CreateRuntimeGroup.
CreateRuntimeGroup(p, requestBody) ==
    /\ ~panicked
    /\ pc[p] = "idle"
    /\ ncalls < MaxCalls
    /\ Enter(p, ClientPtr, requestBody, "client", Nil)
    /\ lastOp' = "CreateRuntimeGroup"
    /\ UNCHANGED <<rClient, newVars>>

\* client.go:88-105: the transport answers and CreateRuntimeGroup returns;
\* for a call made by Create, runtime_group_resource.go:129-139 follow.
Respond(p, outcome) ==
    /\ ~panicked
    /\ pc[p] = "await"
    /\ pc' = [pc EXCEPT ![p] = "idle"]
    /\ cur' = [cur EXCEPT ![p] = NoCall]
    /\ lastRet' = Finish(outcome)
    /\ AfterCall(cur[p].via, cur[p].data, Finish(outcome))
    /\ lastOp' = IF cur[p].via = "provider" THEN "Create" ELSE "CreateRuntimeGroup"
    /\ UNCHANGED <<ncalls, nearly, nsent, wire, panicked, c, rClient, newVars>>

(***************************************************************************)
(* internal/provider/runtime_group_resource.go                             *)
(***************************************************************************)
\* runtime_group_resource.go:86-104
Configure(providerData) ==
    /\ ~panicked
    /\ IF providerData = Nil
       THEN UNCHANGED <<rClient, diags>>
       ELSE IF providerData # ClientPtr
       THEN /\ diags' = {"Unexpected Resource Configure Type"}
            /\ UNCHANGED rClient
       ELSE /\ rClient' = providerData
            /\ UNCHANGED diags
    /\ lastOp' = "Configure"
    /\ UNCHANGED <<tfState, wrote, clientVars, newVars>>

\* A Create that goes on to the remote call although reading the plan
\* reported an error.
Create_IgnoresPlanError(p, data, planErr) ==
    /\ ~panicked
    /\ pc[p] = "idle"
    /\ ncalls < MaxCalls
    /\ Enter(p, rClient, PlanRequest(data), "provider", data)
    /\ lastOp' = "Create"
    /\ UNCHANGED <<rClient, newVars>>

\* runtime_group_resource.go:106-128: Create reads the plan, returns on an
\* error diagnostic, and otherwise calls r.client.CreateRuntimeGroup.
\* planErr is whether req.Plan.Get reported an error.
Create(p, data, planErr) ==
    /\ ~panicked
    /\ pc[p] = "idle"
    /\ ncalls < MaxCalls
    /\ IF planErr
       THEN /\ diags' = {"Value Conversion Error"}
            /\ wrote' = NoWrite
            /\ UNCHANGED <<tfState, clientVars>>
       ELSE Enter(p, rClient, PlanRequest(data), "provider", data)
    /\ lastOp' = "Create"
    /\ UNCHANGED <<rClient, newVars>>

\* A Read that refreshes the computed endpoints away.
Read_DropsEndpoints(stateErr) ==
    /\ ~panicked
    /\ tfState # NoState
    /\ IF stateErr
       THEN /\ diags' = {"Value Conversion Error"}
            /\ wrote' = NoWrite
            /\ UNCHANGED tfState
       ELSE LET data == [tfState EXCEPT !.ControlPlaneEndpoint = StringNull,
                                        !.TelemetryEndpoint = StringNull] IN
            /\ diags' = {}
            /\ tfState' = data
            /\ wrote' = [set |-> TRUE, value |-> data]
    /\ lastOp' = "Read"
    /\ UNCHANGED <<rClient, clientVars, newVars>>

\* runtime_group_resource.go:142-162: Read decodes the prior state and
\* saves it again.  stateErr is whether req.State.Get reported an error.
Read(stateErr) ==
    /\ ~panicked
    /\ tfState # NoState
    /\ IF stateErr
       THEN /\ diags' = {"Value Conversion Error"}
            /\ wrote' = NoWrite
            /\ UNCHANGED tfState
       ELSE LET data == tfState IN
            /\ diags' = {}
            /\ tfState' = data
            /\ wrote' = [set |-> TRUE, value |-> data]
    /\ lastOp' = "Read"
    /\ UNCHANGED <<rClient, clientVars, newVars>>

\* runtime_group_resource.go:164-184: Update decodes the plan and saves it.
Update(data, planErr) ==
    /\ ~panicked
    /\ tfState # NoState
    /\ IF planErr
       THEN /\ diags' = {"Value Conversion Error"}
            /\ wrote' = NoWrite
            /\ UNCHANGED tfState
       ELSE /\ diags' = {}
            /\ tfState' = data
            /\ wrote' = [set |-> TRUE, value |-> data]
    /\ lastOp' = "Update"
    /\ UNCHANGED <<rClient, clientVars, newVars>>

\* runtime_group_resource.go:186-203: Delete decodes the prior state and
\* does nothing with it; the response state stays as the framework set it.
Delete(stateErr) ==
    /\ ~panicked
    /\ tfState # NoState
    /\ diags' = IF stateErr THEN {"Value Conversion Error"} ELSE {}
    /\ wrote' = NoWrite
    /\ lastOp' = "Delete"
    /\ UNCHANGED <<tfState, rClient, clientVars, newVars>>

\* The state of an imported resource: the framework starts from an empty
\* state, in which every attribute is null.
EmptyState ==
    [Id |-> StringNull, Name |-> StringNull, Description |-> StringNull,
     ClusterType |-> StringNull, Labels |-> MapNull,
     ControlPlaneEndpoint |-> StringNull, TelemetryEndpoint |-> StringNull]

\* runtime_group_resource.go:205-207: ImportStatePassthroughID sets the
\* attribute at path.Root("id") to req.ID; an empty ID is an error
\* diagnostic and sets nothing.
ImportState(id) ==
    /\ ~panicked
    /\ IF id = ""
       THEN /\ diags' = {"Resource Import Passthrough Missing Identifier"}
            /\ wrote' = NoWrite
            /\ UNCHANGED tfState
       ELSE /\ diags' = {}
            /\ tfState' = [EmptyState EXCEPT !.Id = StringValue(id)]
            /\ wrote' = [set |-> TRUE, value |-> [EmptyState EXCEPT !.Id = StringValue(id)]]
    /\ lastOp' = "ImportState"
    /\ UNCHANGED <<rClient, clientVars, newVars>>

(***************************************************************************)
(* Specifications.                                                         *)
(***************************************************************************)
\* The provider: Terraform configures the resource and runs its lifecycle
\* operations, Create from any goroutine.
Next ==
    \/ \E providerData \in ProviderData : Configure(providerData)
    \/ \E p \in Procs, data \in Plans, planErr \in BOOLEAN : Create(p, data, planErr)
    \/ \E p \in Procs, outcome \in TransportOutcomes : Respond(p, outcome)
    \/ \E stateErr \in BOOLEAN : Read(stateErr)
    \/ \E data \in Plans, planErr \in BOOLEAN : Update(data, planErr)
    \/ \E stateErr \in BOOLEAN : Delete(stateErr)
    \/ \E id \in ImportIDs : ImportState(id)

Spec == Init /\ [][Next]_vars

\* The client alone: goroutines that share one Client call
\* CreateRuntimeGroup concurrently.
NextClient ==
    \/ \E p \in Procs, requestBody \in Requests : CreateRuntimeGroup(p, requestBody)
    \/ \E p \in Procs, outcome \in TransportOutcomes : Respond(p, outcome)

SpecClient == Init /\ [][NextClient]_vars

\* Construction alone: New on every base address and token.
NextNew == \E baseULR \in URLs, token \in Tokens : New(baseULR, token)

SpecNew == Init /\ [][NextNew]_vars


(***************************************************************************)
(* Properties.                                                             *)
(***************************************************************************)
\* Whether the request body serializes and the endpoint composes for the
\* shared client.
Composes(requestBody) ==
    /\ jsonMarshal(requestBody).err = Nil
    /\ urlParse(c.BaseUrl) = Nil

\* C1: every call of CreateRuntimeGroup hands exactly one request to the
\* transport when the body serializes and the endpoint composes, and none
\* when either fails; the return path sends nothing more (no retry); so
\* the requests sent are the calls made minus the calls that ended before
\* the transport, also for a repeated identical request.
C1_OneRequestPerCall ==
    /\ [](nsent + nearly = ncalls)
    /\ [][\A p \in Procs, requestBody \in Requests :
            CreateRuntimeGroup(p, requestBody) =>
                nsent' = nsent + (IF Composes(requestBody) THEN 1 ELSE 0)]_vars
    /\ [][\A p \in Procs, outcome \in TransportOutcomes :
            Respond(p, outcome) => nsent' = nsent /\ wire' = wire]_vars

\* Two calls with the same input have both been sent.
C1_Witness ==
    /\ nsent = 2
    /\ Cardinality(wire) = 1
    /\ lastOp = "CreateRuntimeGroup"

\* C2: a call succeeds only on status 200 or 201; on any other status it
\* returns no response and an error carrying that status code, and it does
\* not run the decoder.
C2_OnlyOkOrCreatedSucceed ==
    [][\A p \in Procs, outcome \in TransportOutcomes :
         (Respond(p, outcome) /\ outcome.err = Nil) =>
            /\ lastRet'.err = Nil => outcome.StatusCode \in {200, 201}
            /\ outcome.StatusCode \notin {200, 201} =>
                  /\ lastRet'.resp = Nil
                  /\ lastRet'.err # Nil
                  /\ "code" \in DOMAIN lastRet'.err.cause
                  /\ lastRet'.err.cause.code = outcome.StatusCode
                  /\ ~lastRet'.decoded]_vars

\* A call has returned the error of status 202.
C2_Witness ==
    /\ lastRet # Nil
    /\ lastRet.resp = Nil
    /\ lastRet.err = wrap("checking status code",
                          [msg |-> "HTTP request failed with status code", code |-> 202])

\* C3: New succeeds for every absolute base address and every token the
\* unverified decoder parses without error, and returns a client holding
\* exactly that base address and token.
C3_NewAcceptsValidInput ==
    (/\ newRet # Nil
     /\ newArgs.baseULR \in AbsoluteURLs
     /\ ParseUnverified(newArgs.token).err = Nil)
    => /\ newRet.err = Nil
       /\ newRet.client = [BaseUrl |-> newArgs.baseULR, token |-> newArgs.token]

\* Whether New is specified to fail on these arguments.
MustFail(baseULR, token) ==
    \/ urlParse(baseULR) # Nil
    \/ ParseUnverified(token).err # Nil
    \/ ~ParseUnverified(token).token.Valid

\* C4: New returns a client if and only if it returns no error; when the
\* base address does not parse or the token fails decoding or is decoded
\* invalid it returns an error and no client; and it sends nothing.
C4_NewFailsWithoutClient ==
    newRet # Nil =>
        /\ (newRet.client # Nil) <=> (newRet.err = Nil)
        /\ MustFail(newArgs.baseULR, newArgs.token) =>
              (newRet.err # Nil /\ newRet.client = Nil)
        /\ nsent = 0 /\ wire = {} /\ ncalls = 0

\* New has failed on a token with a malformed claims segment.
C4_Witness ==
    /\ newRet # Nil
    /\ newArgs.baseULR \in AbsoluteURLs
    /\ newArgs.token = <<"hdr", "junk", "sig">>
    /\ newRet.err # Nil

\* C5: no step of any interleaving of calls changes the client's base
\* address or token, and every request handed to the transport targets
\* that base address and carries that token.
C5_ConfigurationReadOnly ==
    /\ [][c' = c]_vars
    /\ [](\A r \in wire :
            /\ r.URL = c.BaseUrl \o runtimeGroupEndpoint
            /\ <<"Authorization", <<"Bearer", c.token>> >> \in r.Header)

\* Two calls are inside the transport at once, after an earlier call has
\* returned.
C5_Witness ==
    /\ \A p \in Procs : pc[p] = "await"
    /\ nsent = 3
    /\ lastRet # Nil

\* C6: every call returns a response or an error, never both and never
\* neither; a transport failure, a non-success status and an undecodable
\* body each give an error and no response.
C6_ResponseXorError ==
    /\ [](lastRet # Nil => ((lastRet.resp = Nil) <=> (lastRet.err # Nil)))
    /\ [][\A p \in Procs, outcome \in TransportOutcomes :
            (/\ Respond(p, outcome)
             /\ \/ outcome.err # Nil
                \/ outcome.StatusCode \notin {200, 201}
                \/ outcome.Body \notin JSONBodies)
            => (lastRet'.resp = Nil /\ lastRet'.err # Nil)]_vars

\* A call has returned after the decoder rejected the body of a success
\* status.
C6_Witness ==
    /\ lastRet # Nil
    /\ lastRet.decoded
    /\ lastRet.err # Nil
    /\ lastRet.resp = Nil

\* C7: Read, Update and Delete make no remote call; Read saves the prior
\* state unchanged, Update saves the plan unchanged, Delete saves nothing.
C7_StubsRoundTripState ==
    [][/\ \A stateErr \in BOOLEAN :
            Read(stateErr) =>
                /\ nsent' = nsent /\ ncalls' = ncalls /\ wire' = wire
                /\ tfState' = tfState
                /\ ~stateErr => wrote' = [set |-> TRUE, value |-> tfState]
       /\ \A data \in Plans, planErr \in BOOLEAN :
            Update(data, planErr) =>
                /\ nsent' = nsent /\ ncalls' = ncalls /\ wire' = wire
                /\ ~planErr => (tfState' = data /\ wrote' = [set |-> TRUE, value |-> data])
       /\ \A stateErr \in BOOLEAN :
            Delete(stateErr) =>
                /\ nsent' = nsent /\ ncalls' = ncalls /\ wire' = wire
                /\ tfState' = tfState
                /\ wrote' = NoWrite]_vars

\* Read has saved a state that Create produced.
C7_Witness ==
    /\ lastOp = "Read"
    /\ wrote = [set |-> TRUE, value |-> tfState]
    /\ tfState.ControlPlaneEndpoint = StringValue("https://cp1.konghq.test")
    /\ nsent = 1

\* C8: Create calls CreateRuntimeGroup once when the plan was read without
\* an error and not at all when reading it gave an error; the return path
\* makes no further call, also when the call failed.
C8_CreateCallsOnce ==
    [][/\ \A p \in Procs, data \in Plans, planErr \in BOOLEAN :
            Create(p, data, planErr) =>
                ncalls' = ncalls + (IF planErr THEN 0 ELSE 1)
       /\ \A p \in Procs, outcome \in TransportOutcomes :
            Respond(p, outcome) => ncalls' = ncalls]_vars

\* A Create whose one call failed in the transport has ended.
C8_Witness ==
    /\ lastOp = "Create"
    /\ diags = {"Client Error"}
    /\ ncalls = 1
    /\ nsent = 1
    /\ \A p \in Procs : pc[p] = "idle"

\* Whether the transport outcome is a success with a decodable body.
Succeeds(outcome) ==
    /\ outcome.err = Nil
    /\ outcome.StatusCode \in {200, 201}
    /\ outcome.Body \in JSONBodies

C10_CreateNeverUsesNilClient == ~panicked

=============================================================================
